---- MODULE Spec2Model ----
(***************************************************************************)
(* A model of rosu-v2's rkyv adapters (src/src/model/rkyv_impls.rs): the   *)
(* generic Map<A> adapter for Vec and Option, the CountryCode / Username   *)
(* text adapters, DateTimeWrapper and DateWrapper; and of its user         *)
(* requests (src/src/request/user.rs): new, the setters and start.         *)
(*                                                                         *)
(* The archive is a sequence of bytes (0..255); a position is the number   *)
(* of bytes before it, so position p is buf[p + 1].  Layout is rkyv 0.7's  *)
(* default: little-endian, 32-bit relative pointers and lengths.           *)
(***************************************************************************)
EXTENDS Integers, Sequences, FiniteSets, TLC

VARIABLES phase, ty, src, cap, scr, out, out2, arch, dec, ghost, req, sent

vars == <<phase, ty, src, cap, scr, out, out2, arch, dec, ghost, req, sent>>

Null == [k |-> "null"]

\* --------------------------------------------------------------------
\* Small helpers

Tail2(s) == SubSeq(s, 2, Len(s))

Zeros(n) == [i \in 1..n |-> 0]

\* s with the bytes of t written at position p (0-based), Len(t) <= Len(s) - p.
Overwrite(s, p, t) ==
  [i \in 1..Len(s) |-> IF i > p /\ i <= p + Len(t) THEN t[i - p] ELSE s[i]]

\* Bytes [p, p + n) of s.
Slice(s, p, n) == SubSeq(s, p + 1, p + n)

\* --------------------------------------------------------------------
\* Fixed-width integers.  TLC's integers are 32-bit, so an i32 is an
\* Int, and wider integers (i64, i128) are little-endian byte sequences
\* in two's complement.

MinI32 == (-2147483647) - 1

\* The 4 little-endian bytes of the i32 (or u32 below 2^31) x.
LeBytes32(x) ==
  << x % 256, (x \div 256) % 256, (x \div 65536) % 256, (x \div 16777216) % 256 >>

\* The i32 held by 4 little-endian bytes.
FromLe32(b) ==
  (IF b[4] >= 128 THEN MinI32 ELSE 0)
    + b[1] + 256 * b[2] + 65536 * b[3] + 16777216 * (b[4] % 128)

\* The 32 bits of an i32, least significant first.
RECURSIVE BitsOf(_, _)
BitsOf(x, n) == IF n = 0 THEN << >> ELSE << x % 2 >> \o BitsOf(x \div 2, n - 1)

Bits32(x) == BitsOf(x, 32)

RECURSIVE UnsignedOfBits(_)
UnsignedOfBits(b) == IF b = << >> THEN 0 ELSE b[1] + 2 * UnsignedOfBits(Tail2(b))

OfBits32(b) == (IF b[32] = 1 THEN MinI32 ELSE 0) + UnsignedOfBits(SubSeq(b, 1, 31))

\* x << n on i32: the bits shifted out are lost.
Shl32(x, n) ==
  LET b == Bits32(x)
  IN  OfBits32([i \in 1..32 |-> IF i <= n THEN 0 ELSE b[i - n]])

\* x >> n on i32: arithmetic, the sign bit is copied in.
Sar32(x, n) ==
  LET b == Bits32(x)
  IN  OfBits32([i \in 1..32 |-> IF i + n <= 32 THEN b[i + n] ELSE b[32]])

BitOr32(x, y) ==
  LET a == Bits32(x)
      b == Bits32(y)
  IN  OfBits32([i \in 1..32 |-> IF a[i] = 1 \/ b[i] = 1 THEN 1 ELSE 0])

BitAnd32(x, y) ==
  LET a == Bits32(x)
      b == Bits32(y)
  IN  OfBits32([i \in 1..32 |-> IF a[i] = 1 /\ b[i] = 1 THEN 1 ELSE 0])

\* x as i32 sign-extended to n little-endian bytes (n >= 4).
SignExtend(x, n) ==
  LeBytes32(x) \o [i \in 1..(n - 4) |-> IF x < 0 THEN 255 ELSE 0]

IsNegative(b) == b[Len(b)] >= 128

\* Whether the two's complement bytes b hold a value that fits an i32.
FitsI32(b) ==
  \A i \in 5..Len(b) : b[i] = (IF b[4] >= 128 THEN 255 ELSE 0)

\* b * k modulo 256^Len(b), for 0 <= k <= 100000.
RECURSIVE MulSmallFrom(_, _, _)
MulSmallFrom(b, k, carry) ==
  IF b = << >> THEN << >>
  ELSE LET t == b[1] * k + carry
       IN  << t % 256 >> \o MulSmallFrom(Tail2(b), k, t \div 256)

MulSmall(b, k) == MulSmallFrom(b, k, 0)

\* b + k modulo 256^Len(b), for 0 <= k < 2^30.
RECURSIVE AddSmall(_, _)
AddSmall(b, k) ==
  IF b = << >> THEN << >>
  ELSE LET t == b[1] + k
       IN  << t % 256 >> \o AddSmall(Tail2(b), t \div 256)

\* -b modulo 256^Len(b).
Negate(b) == AddSmall([i \in 1..Len(b) |-> 255 - b[i]], 1)

\* Unsigned b divided by k (1 <= k <= 100000): [q, r], most significant
\* byte first.
RECURSIVE DivSmallFrom(_, _, _, _)
DivSmallFrom(b, k, i, rem) ==
  IF i = 0 THEN [q |-> << >>, r |-> rem]
  ELSE LET t    == rem * 256 + b[i]
           rest == DivSmallFrom(b, k, i - 1, t % k)
       IN  [q |-> rest.q \o << t \div k >>, r |-> rest.r]

DivSmall(b, k) == DivSmallFrom(b, k, Len(b), 0)

\* Signed b divided by k, rounding down, with the remainder in 0..k-1
\* (div_floor and rem_euclid).
DivFloor(b, k) ==
  IF IsNegative(b)
  THEN LET d == DivSmall(Negate(b), k)
       IN  IF d.r = 0 THEN [q |-> Negate(d.q), r |-> 0]
           ELSE [q |-> Negate(AddSmall(d.q, 1)), r |-> k - d.r]
  ELSE DivSmall(b, k)

\* --------------------------------------------------------------------
\* The time crate's Date and OffsetDateTime, as far as the adapters use
\* them.  A Date is [year, ordinal]; an OffsetDateTime is the instant
\* [days, sod, ns]: days since 1970-01-01, second of the day, nanosecond.

MinDateYear == -9999
MaxDateYear == 9999
\* 1970-01-01 minus -9999-01-01, and 9999-12-31 minus 1970-01-01, in days.
MinUnixDay == -4371587
MaxUnixDay == 2932896

ResOk(v) == [res |-> "ok", v |-> v]
ResErr(e) == [res |-> "err", err |-> e]
\* A panic: Result::unwrap on an Err.
ResPanic == [res |-> "panic"]

IsLeapYear(y) == y % 4 = 0 /\ (y % 100 # 0 \/ y % 400 = 0)

DaysInYear(y) == IF IsLeapYear(y) THEN 366 ELSE 365

MkDate(y, o) == [k |-> "date", year |-> y, ordinal |-> o]

MkInstant(d, s, n) == [k |-> "dt", days |-> d, sod |-> s, ns |-> n]

\* Date::from_ordinal_date
FromOrdinalDate(year, ordinal) ==
  IF year < MinDateYear \/ year > MaxDateYear THEN ResErr("ComponentRange")
  ELSE IF ordinal < 1 \/ ordinal > DaysInYear(year) THEN ResErr("ComponentRange")
  ELSE ResOk(MkDate(year, ordinal))

\* OffsetDateTime::unix_timestamp_nanos: the i128, as 16 bytes.
UnixTimestampNanos(t) ==
  LET secs == AddSmall(MulSmall(SignExtend(t.days, 16), 86400), t.sod)
  IN  AddSmall(MulSmall(MulSmall(MulSmall(secs, 1000), 1000), 1000), t.ns)

\* OffsetDateTime::from_unix_timestamp on the i64 secs (8 bytes).
FromUnixTimestamp(secs) ==
  LET d == DivFloor(secs, 86400)
  IN  IF FitsI32(d.q) /\ FromLe32(d.q) >= MinUnixDay /\ FromLe32(d.q) <= MaxUnixDay
      THEN ResOk(MkInstant(FromLe32(d.q), d.r, 0))
      ELSE ResErr("ComponentRange")

\* OffsetDateTime::from_unix_timestamp_nanos on the i128 ts (16 bytes):
\* the seconds are cast to i64 before the range check.
FromUnixTimestampNanos(ts) ==
  LET d1 == DivFloor(ts, 1000)
      d2 == DivFloor(d1.q, 1000)
      d3 == DivFloor(d2.q, 1000)
      dt == FromUnixTimestamp(SubSeq(d3.q, 1, 8))
  IN  IF dt.res = "ok"
      THEN ResOk([dt.v EXCEPT !.ns = d1.r + 1000 * d2.r + 1000000 * d3.r])
      ELSE dt

\* Result::unwrap
Unwrap(r) == IF r.res = "ok" THEN r ELSE ResPanic

\* --------------------------------------------------------------------
\* Adapted types.  A type is a sequence of constructors, outermost first:
\* <<"opt", "vec", "un">> is Option<Vec<Username>> under
\* Map<Map<UsernameWrapper>>.  Values:
\*   [k |-> "cc" | "un", s |-> bytes]      CountryCode, Username
\*   [k |-> "dt", days, sod, ns]           OffsetDateTime
\*   [k |-> "date", year, ordinal]         Date
\*   [k |-> "vec", e |-> <<values>>]       Vec
\*   [k |-> "none"], [k |-> "some", v]     Option

MkText(kind, s) == [k |-> kind, s |-> s]
MkVec(e) == [k |-> "vec", e |-> e]
None == [k |-> "none"]
Some(v) == [k |-> "some", v |-> v]

AlignUp(p, a) == p + ((a - (p % a)) % a)

RECURSIVE AlignOf(_)
AlignOf(T) ==
  CASE T[1] = "opt" -> AlignOf(Tail2(T))
    [] T[1] = "dt"  -> 16
    [] OTHER        -> 4

\* The offset of the payload in ArchivedOptionVariantSome<T>, a repr(C)
\* struct of a one-byte tag and T: what out_field!(out.1) gives.
PayloadOffset(T) == AlignOf(Tail2(T))

RECURSIVE SizeOf(_)
SizeOf(T) ==
  CASE T[1] = "opt"  -> AlignUp(PayloadOffset(T) + SizeOf(Tail2(T)), AlignOf(T))
    [] T[1] = "dt"   -> 16
    [] T[1] = "date" -> 4
    [] OTHER         -> 8

\* ArchivedString keeps a string of at most this many bytes in its header.
InlineCapacity == 7

\* --------------------------------------------------------------------
\* The serializer S: a writer over a buffer of cap bytes (Unbounded: one
\* that grows) and a scratch space of scr slots.  log is the history of
\* the calls made on the adapters, kept for the properties:
\*   [op |-> "ser",  path, r]       serialize_with returned Ok(r)
\*   [op |-> "fail", path, err]     serialize_with returned Err(err)
\*   [op |-> "res",  path, pos, r, at]  resolve_with was called with pos
\*                                  and r; its header lies at position at
\* A path names a source value by its place under the root: << >> is the
\* root, p \o <<i>> the i-th element of the Vec (or the payload, i = 1, of
\* the Option) at p.

Unbounded == -1

NoErr == [k |-> "none"]

Unit == [k |-> "unit"]

NewSerializer(c, sc, junk) ==
  [buf |-> << >>, cap |-> c, scr |-> sc, log |-> << >>, err |-> NoErr,
   junk |-> junk, ub |-> FALSE]

Pos(s) == Len(s.buf)

Failed(s) == s.err # NoErr

Logged(s, ev) == [s EXCEPT !.log = Append(@, ev)]

\* Serializer::write
Write(s, bytes) ==
  IF Failed(s) THEN s
  ELSE IF s.cap # Unbounded /\ Pos(s) + Len(bytes) > s.cap
  THEN [s EXCEPT !.err = [k |-> "Overflow", pos |-> Pos(s), needed |-> Len(bytes)]]
  ELSE [s EXCEPT !.buf = @ \o bytes]

\* Serializer::align_for
AlignFor(s, align) == Write(s, Zeros(AlignUp(Pos(s), align) - Pos(s)))

\* ScratchVec::new for n elements
ScratchAlloc(s, n) ==
  IF Failed(s) \/ n = 0 THEN s
  ELSE IF s.scr # Unbounded /\ n > s.scr
  THEN [s EXCEPT !.err = [k |-> "ScratchSpace", pos |-> Pos(s), needed |-> n]]
  ELSE [s EXCEPT !.scr = IF @ = Unbounded THEN @ ELSE @ - n]

\* ScratchVec::free
ScratchFree(s, n) ==
  IF Failed(s) THEN s
  ELSE [s EXCEPT !.scr = IF @ = Unbounded THEN @ ELSE @ + n]

\* Faulty variant, for comparison: the memory is left as it was.
ResolvedUninit(size, junk) == [i \in 1..size |-> junk]

\* The memory resolve_aligned hands to resolve as `out`: all zero bytes,
\* whatever the stack held before (junk).
ResolvedInit(size, junk) == Zeros(size)

\* --------------------------------------------------------------------
\* The leaf adapters

\* ArchivedString::serialize_from_str: a string longer than the header
\* holds inline is written out; the resolver is where it went.
SerializeFromStr(str, s) ==
  IF Len(str) <= InlineCapacity
  THEN [s |-> s, r |-> [k |-> "str", pos |-> 0]]
  ELSE [s |-> Write(s, str), r |-> [k |-> "str", pos |-> Pos(s)]]

\* Faulty variant, for comparison: the position of the target is stored.
RelOffsetAbsolute(from, target) == target

\* The offset a relative pointer at position from stores to reach target.
RelOffset(from, target) == target - from

\* ArchivedString::resolve_from_str: the 8 header bytes.  Inline: the text,
\* then its length in the last byte.  Out of line: the length, then the
\* offset from the header to the text (negative, so the last byte's top
\* bit is set).
ResolveFromStr(str, pos, r, m, off) ==
  IF Len(str) <= InlineCapacity
  THEN Overwrite(Overwrite(m, off, str), off + InlineCapacity, << Len(str) >>)
  ELSE Overwrite(Overwrite(m, off, LeBytes32(Len(str))),
                 off + 4, LeBytes32(RelOffset(pos, r.pos)))

\* ArchivedString::as_str on the header at pos
ArchivedStr(buf, pos) ==
  LET last == buf[pos + InlineCapacity + 1]
  IN  IF last < 128
      THEN Slice(buf, pos, last)
      ELSE Slice(buf, pos + FromLe32(Slice(buf, pos + 4, 4)), FromLe32(Slice(buf, pos, 4)))

\* DateWrapper::resolve_with: (year << 9) | ordinal as i32
PackDate(year, ordinal) == BitOr32(Shl32(year, 9), ordinal)

\* Faulty variant, for comparison: the shift is logical: zeros are shifted in.
UnpackYearLogical(value) ==
  LET b == Bits32(value)
  IN  OfBits32([i \in 1..32 |-> IF i + 9 <= 32 THEN b[i + 9] ELSE 0])

\* DateWrapper::deserialize_with: the year and ordinal held by the field
UnpackYear(value) == Sar32(value, 9)

\* 0x1FF: the low 9 bits
OrdinalMask == 511

UnpackOrdinal(value) == BitAnd32(value, OrdinalMask)

\* DateWrapper::deserialize_with
DateDeserializeWith(value) ==
  Unwrap(FromOrdinalDate(UnpackYear(value), UnpackOrdinal(value)))

\* Faulty variant, for comparison: the instant is rebuilt from the whole seconds alone.
DateTimeDeserializeSeconds(field) ==
  Unwrap(FromUnixTimestamp(
    SubSeq(DivFloor(DivFloor(DivFloor(field, 1000).q, 1000).q, 1000).q, 1, 8)))

\* DateTimeWrapper::deserialize_with
DateTimeDeserializeWith(field) == Unwrap(FromUnixTimestampNanos(field))

\* Faulty variant, for comparison: the text is normalised to upper case.
TextDeserializeUppercased(kind, str) ==
  ResOk(MkText(kind, [i \in 1..Len(str) |->
                       IF str[i] >= 97 /\ str[i] <= 122 THEN str[i] - 32 ELSE str[i]]))

\* CountryCodeWrapper / UsernameWrapper deserialize_with
TextDeserializeWith(kind, str) == ResOk(MkText(kind, str))

\* --------------------------------------------------------------------
\* Encoding: serialize_with and resolve_with

OptResolver(some, r) == [k |-> "optr", some |-> some, r |-> r]

VecResolver(pos) == [k |-> "vec", pos |-> pos]

EvSer(p, r) == [op |-> "ser", path |-> p, r |-> r]
EvFail(p, e) == [op |-> "fail", path |-> p, err |-> e]
EvRes(p, pos, r, at) == [op |-> "res", path |-> p, pos |-> pos, r |-> r, at |-> at]

RECURSIVE ResolveWith(_, _, _, _, _, _, _, _)

\* Map::resolve_with for Vec: ArchivedVec::resolve_from_len writes the
\* relative pointer to the elements, then the length.
MapVecResolveWith(field, pos, resolver, m, off) ==
  Overwrite(Overwrite(m, off, LeBytes32(RelOffset(pos, resolver.pos))),
            off + 4, LeBytes32(Len(field.e)))

\* Faulty variant, for comparison: the payload is resolved as if it lay at the Option's position.
MapOptionResolveAtOwnPos(T, field, pos, resolver, m, off, p, log) ==
  IF ~resolver.some
  THEN [m |-> Overwrite(m, off, << 0 >>), log |-> log, ub |-> FALSE]
  ELSE LET tagged == Overwrite(m, off, << 1 >>)
           fp     == PayloadOffset(T)
       IN  IF field.k # "some"
           THEN [m |-> tagged, log |-> log, ub |-> TRUE]
           ELSE ResolveWith(Tail2(T), field.v, pos, resolver.r, tagged,
                            off + fp, p \o << 1 >>, log)

\* Faulty variant, for comparison: only the tag is written; the payload's resolver is dropped.
MapOptionResolveTagOnly(T, field, pos, resolver, m, off, p, log) ==
  [m |-> Overwrite(m, off, << IF resolver.some THEN 1 ELSE 0 >>),
   log |-> log, ub |-> FALSE]

\* Faulty variant, for comparison: an absent value has its payload cleared as well.
MapOptionResolveClearPayload(T, field, pos, resolver, m, off, p, log) ==
  IF ~resolver.some
  THEN [m |-> Overwrite(m, off, Zeros(SizeOf(T))), log |-> log, ub |-> FALSE]
  ELSE IF field.k # "some"
  THEN [m |-> Overwrite(m, off, << 1 >>), log |-> log, ub |-> TRUE]
  ELSE ResolveWith(Tail2(T), field.v, pos + PayloadOffset(T), resolver.r,
                   Overwrite(m, off, << 1 >>), off + PayloadOffset(T), p \o << 1 >>, log)

\* Map::resolve_with for Option.  A Some resolver with an absent field
\* reaches unreachable_unchecked: ub.
MapOptionResolveWith(T, field, pos, resolver, m, off, p, log) ==
  IF ~resolver.some
  THEN [m |-> Overwrite(m, off, << 0 >>), log |-> log, ub |-> FALSE]
  ELSE LET tagged == Overwrite(m, off, << 1 >>)
           fp     == PayloadOffset(T)
       IN  IF field.k # "some"
           THEN [m |-> tagged, log |-> log, ub |-> TRUE]
           ELSE ResolveWith(Tail2(T), field.v, pos + fp, resolver.r, tagged,
                            off + fp, p \o << 1 >>, log)

\* A::resolve_with for the adapter of T: writes the header of field at
\* offset off of the memory m (the `out` pointer); pos is the position the
\* caller says the header will have in the archive.
ResolveWith(T, field, pos, resolver, m, off, p, log) ==
  LET log1 == Append(log, EvRes(p, pos, resolver, off))
  IN  CASE T[1] \in {"cc", "un"} ->
             [m |-> ResolveFromStr(field.s, pos, resolver, m, off),
              log |-> log1, ub |-> FALSE]
        [] T[1] = "dt" ->
             [m |-> Overwrite(m, off, UnixTimestampNanos(field)),
              log |-> log1, ub |-> FALSE]
        [] T[1] = "date" ->
             [m |-> Overwrite(m, off, LeBytes32(PackDate(field.year, field.ordinal))),
              log |-> log1, ub |-> FALSE]
        [] T[1] = "vec" ->
             [m |-> MapVecResolveWith(field, pos, resolver, m, off),
              log |-> log1, ub |-> FALSE]
        [] T[1] = "opt" ->
             MapOptionResolveWith(T, field, pos, resolver, m, off, p, log1)

\* Serializer::resolve_aligned: resolve into zeroed memory, then write it
\* at the current position (which places the headers resolved into it).
WriteResolved(s, res) ==
  Write([s EXCEPT !.log = [i \in 1..Len(res.log) |->
                             IF i <= Len(s.log) THEN res.log[i]
                             ELSE [res.log[i] EXCEPT !.at = Pos(s) + @]],
                  !.ub = @ \/ res.ub],
        res.m)

ResolveAligned(T, value, resolver, p, s) ==
  IF Failed(s) THEN s
  ELSE WriteResolved(s, ResolveWith(T, value, Pos(s), resolver,
                                    ResolvedInit(SizeOf(T), s.junk), 0, p, s.log))

RECURSIVE SerializeWith(_, _, _, _)

\* The first loop of ArchivedVec::serialize_from_iter: serialize each
\* element in order, keeping its resolver; the first error ends it.
PushResolver(rs, one) == [s |-> one.s, rs |-> Append(rs, one.r)]

RECURSIVE SerializeElems(_, _, _, _, _)
SerializeElems(E, elems, i, p, acc) ==
  IF Failed(acc.s) \/ i > Len(elems) THEN acc
  ELSE SerializeElems(E, elems, i + 1, p,
         PushResolver(acc.rs, SerializeWith(E, elems[i], p \o << i >>, acc.s)))

\* Faulty variant, for comparison: the headers are written last element first.
RECURSIVE ResolveElemsBackwards(_, _, _, _, _, _)
ResolveElemsBackwards(E, elems, rs, i, p, s) ==
  IF Failed(s) \/ i > Len(elems) THEN s
  ELSE ResolveElemsBackwards(E, elems, rs, i + 1, p,
         ResolveAligned(E, elems[Len(elems) + 1 - i], rs[Len(elems) + 1 - i],
                        p \o << Len(elems) + 1 - i >>, s))

\* Its second loop: resolve_aligned of each element with its resolver.
RECURSIVE ResolveElems(_, _, _, _, _, _)
ResolveElems(E, elems, rs, i, p, s) ==
  IF Failed(s) \/ i > Len(elems) THEN s
  ELSE ResolveElems(E, elems, rs, i + 1, p,
                    ResolveAligned(E, elems[i], rs[i], p \o << i >>, s))

\* Map::serialize_with for Vec: ArchivedVec::serialize_from_iter over the
\* elements wrapped in RefWrapper.
ResolveAll(E, elems, rs, p, aligned) ==
  [s |-> ScratchFree(ResolveElems(E, elems, rs, 1, p, aligned), Len(elems)),
   r |-> VecResolver(Pos(aligned))]

AlignAndResolve(E, elems, p, ser) ==
  ResolveAll(E, elems, ser.rs, p, AlignFor(ser.s, AlignOf(E)))

MapVecSerializeWith(T, field, p, s) ==
  AlignAndResolve(Tail2(T), field.e, p,
    SerializeElems(Tail2(T), field.e, 1, p,
                   [s |-> ScratchAlloc(s, Len(field.e)), rs |-> << >>]))

\* Faulty variant, for comparison: a payload that fails to serialize is archived as absent.
MapOptionSerializeSwallow(T, field, p, s) ==
  IF field.k = "some"
  THEN LET inner == SerializeWith(Tail2(T), field.v, p \o << 1 >>, s)
       IN  IF Failed(inner.s)
           THEN [s |-> [inner.s EXCEPT !.err = NoErr], r |-> OptResolver(FALSE, Null)]
           ELSE [s |-> inner.s, r |-> OptResolver(TRUE, inner.r)]
  ELSE [s |-> s, r |-> OptResolver(FALSE, Null)]

\* Map::serialize_with for Option: map the payload, transpose.
\* Faulty variant, for comparison: an absent value gets a Some resolver too.
MapOptionSerializeAlwaysSome(T, field, p, s) ==
  IF field.k = "some"
  THEN LET inner == SerializeWith(Tail2(T), field.v, p \o << 1 >>, s)
       IN  [s |-> inner.s, r |-> OptResolver(TRUE, inner.r)]
  ELSE [s |-> s, r |-> OptResolver(TRUE, Unit)]

Transpose(inner) == [s |-> inner.s, r |-> OptResolver(TRUE, inner.r)]

MapOptionSerializeWith(T, field, p, s) ==
  IF field.k = "some"
  THEN Transpose(SerializeWith(Tail2(T), field.v, p \o << 1 >>, s))
  ELSE [s |-> s, r |-> OptResolver(FALSE, Null)]

\* A::serialize_with for the adapter of T.
Returned(p, res) ==
  IF Failed(res.s)
  THEN [s |-> Logged(res.s, EvFail(p, res.s.err)), r |-> Null]
  ELSE [s |-> Logged(res.s, EvSer(p, res.r)), r |-> res.r]

SerializeWith(T, field, p, s) ==
  Returned(p, CASE T[1] \in {"cc", "un"} -> SerializeFromStr(field.s, s)
                [] T[1] \in {"dt", "date"} -> [s |-> s, r |-> Unit]
                [] T[1] = "vec" -> MapVecSerializeWith(T, field, p, s)
                [] T[1] = "opt" -> MapOptionSerializeWith(T, field, p, s))

NoRoot == -1

\* Serializer::serialize_value on a field archived with the adapter of T:
\* serialize, align, resolve.  The caller gets the root position or the
\* error.
Outcome(root, done) ==
  [ok |-> ~Failed(done), root |-> IF Failed(done) THEN NoRoot ELSE root,
   buf |-> done.buf, err |-> done.err, log |-> done.log, ub |-> done.ub]

ResolveRoot(T, value, resolver, al) ==
  Outcome(Pos(al), ResolveAligned(T, value, resolver, << >>, al))

AlignRoot(T, value, ser) == ResolveRoot(T, value, ser.r, AlignFor(ser.s, AlignOf(T)))

SerializeValue(T, value, s) == AlignRoot(T, value, SerializeWith(T, value, << >>, s))

\* --------------------------------------------------------------------
\* Decoding: deserialize_with on the archived value at pos of buf.  ub is
\* what the build makes of an ArchivedOption whose tag is neither 0 nor 1.

RECURSIVE DeserializeWith(_, _, _, _)

\* collect::<Result<Vec<_>, _>>() over the elements' results
RECURSIVE Collect(_, _, _)
Collect(rs, i, acc) ==
  IF i > Len(rs) THEN ResOk(MkVec(acc))
  ELSE IF rs[i].res # "ok" THEN rs[i]
  ELSE Collect(rs, i + 1, Append(acc, rs[i].v))

\* Faulty variant, for comparison: the elements are visited last to first.
MapVecDeserializeReversed(T, buf, pos, ub) ==
  LET E    == Tail2(T)
      base == pos + FromLe32(Slice(buf, pos, 4))
      len  == FromLe32(Slice(buf, pos + 4, 4))
  IN  Collect([i \in 1..len |-> DeserializeWith(E, buf, base + (len - i) * SizeOf(E), ub)],
              1, << >>)

\* Map::deserialize_with for Vec
MapVecDeserializeWith(T, buf, pos, ub) ==
  LET E    == Tail2(T)
      base == pos + FromLe32(Slice(buf, pos, 4))
      len  == FromLe32(Slice(buf, pos + 4, 4))
  IN  Collect([i \in 1..len |-> DeserializeWith(E, buf, base + (i - 1) * SizeOf(E), ub)],
              1, << >>)

\* The variant the match on ArchivedOption takes for a tag byte.
OptionVariant(tag, ub) ==
  CASE tag = 0 -> "none"
    [] tag = 1 -> "some"
    [] OTHER   -> ub

\* Map::deserialize_with for Option
MapOptionDeserializeWith(T, buf, pos, ub) ==
  IF OptionVariant(buf[pos + 1], ub) = "some"
  THEN LET inner == DeserializeWith(Tail2(T), buf, pos + PayloadOffset(T), ub)
       IN  IF inner.res = "ok" THEN ResOk(Some(inner.v)) ELSE inner
  ELSE ResOk(None)

DeserializeWith(T, buf, pos, ub) ==
  CASE T[1] \in {"cc", "un"} -> TextDeserializeWith(T[1], ArchivedStr(buf, pos))
    [] T[1] = "dt"   -> DateTimeDeserializeWith(Slice(buf, pos, 16))
    [] T[1] = "date" -> DateDeserializeWith(FromLe32(Slice(buf, pos, 4)))
    [] T[1] = "vec"  -> MapVecDeserializeWith(T, buf, pos, ub)
    [] T[1] = "opt"  -> MapOptionDeserializeWith(T, buf, pos, ub)

\* --------------------------------------------------------------------
\* The source values of the model

\* Longest Vec of leaves, and longest Vec in a nested type.
MaxLen == 3
MaxNested == 2
\* The buffer capacities tried: the multiples of CapStep up to MaxCap.
MaxCap == 40
CapStep == 8
\* The scratch sizes tried: 0..MaxScratch slots.
MaxScratch == 2

TextJP == << 74, 80 >>
Text7 == << 112, 101, 112, 112, 121, 33, 33 >>
Text8 == << 99, 111, 111, 107, 105, 101, 122, 105 >>
Text9 == << 87, 104, 105, 116, 101, 67, 97, 116, 33 >>

Texts == { << >>, TextJP, Text7, Text8, Text9 }

Instants ==
  { MkInstant(0, 0, 0), MkInstant(-1, 86399, 999999999), MkInstant(19000, 3600, 5),
    MkInstant(MinUnixDay, 0, 0), MkInstant(MaxUnixDay, 86399, 999999999) }

Dates ==
  { MkDate(2021, 45), MkDate(2020, 366), MkDate(-5000, 1), MkDate(MaxDateYear, 365),
    MkDate(MinDateYear, 1) }

LeafKinds == {"cc", "un", "dt", "date"}

Leaves(kind) ==
  CASE kind \in {"cc", "un"} -> { MkText(kind, s) : s \in Texts }
    [] kind = "dt"   -> Instants
    [] kind = "date" -> Dates

\* The values Vec elements are drawn from.
Pool(kind) ==
  CASE kind = "un"   -> { MkText(kind, s) : s \in { TextJP, Text8, Text9 } }
    [] kind = "cc"   -> { MkText(kind, s) : s \in { TextJP, Text9 } }
    [] kind = "dt"   -> { MkInstant(0, 0, 0), MkInstant(-1, 86399, 999999999) }
    [] kind = "date" -> { MkDate(2021, 45), MkDate(-5000, 1) }

SeqsUpTo(S, n) == UNION { [1..k -> S] : k \in 0..n }

Options(S) == { None } \cup { Some(v) : v \in S }

InnerVecs ==
  { MkVec(<< >>), MkVec(<< MkText("un", TextJP) >>),
    MkVec(<< MkText("un", Text9), MkText("un", TextJP) >>) }

\* The type of the value at path p of a value of type T.
RECURSIVE TypeAt(_, _)
TypeAt(T, p) == IF p = << >> THEN T ELSE TypeAt(Tail2(T), Tail2(p))

\* <<type, value>> pairs
Sources ==
  UNION { { << << kind >>, v >> : v \in Leaves(kind) }
          \cup { << << "vec", kind >>, MkVec(e) >> : e \in SeqsUpTo(Pool(kind), MaxLen) }
          \cup { << << "opt", kind >>, o >> : o \in Options(Leaves(kind)) }
          \cup { << << "opt", "vec", kind >>, o >> :
                   o \in Options({ MkVec(e) : e \in SeqsUpTo(Pool(kind), MaxNested) }) }
          \cup { << << "vec", "opt", kind >>, MkVec(e) >> :
                   e \in SeqsUpTo(Options(Pool(kind)), MaxNested) }
        : kind \in LeafKinds }
  \cup { << << "vec", "vec", "un" >>, MkVec(e) >> : e \in SeqsUpTo(InnerVecs, MaxNested) }
  \cup { << << "opt", "opt", "un" >>, o >> :
           o \in Options(Options({ MkText("un", TextJP), MkText("un", Text9) })) }

\* <<buffer capacity, scratch slots>>
Limits ==
  { << Unbounded, Unbounded >> }
  \cup { << c, Unbounded >> : c \in { x \in 0..MaxCap : x % CapStep = 0 } }
  \cup { << Unbounded, n >> : n \in 0..MaxScratch }

\* What uninitialised memory may hold.
Junk == { 0, 170 }

\* Tag bytes that are neither None nor Some.
BadTags == { 2, 255 }

\* --------------------------------------------------------------------
\* The archive specification: a source value is encoded (twice), the
\* archive may get a tag byte corrupted, and is decoded.

NoGhost == [k |-> "none"]

Init ==
  /\ req = Null
  /\ sent = << >>
  /\ phase = "new"
  /\ \E sv \in Sources : ty = sv[1] /\ src = sv[2]
  /\ \E l \in Limits : cap = l[1] /\ scr = l[2]
  /\ out = Null
  /\ out2 = Null
  /\ arch = Null
  /\ dec = Null
  /\ ghost = NoGhost

\* rkyv's serialize_value of the source value.
Encode ==
  /\ phase = "new"
  /\ \E junk \in Junk : out' = SerializeValue(ty, src, NewSerializer(cap, scr, junk))
  /\ arch' = IF out'.ok THEN [buf |-> out'.buf, root |-> out'.root] ELSE Null
  /\ phase' = "encoded"
  /\ UNCHANGED << req, sent, ty, src, cap, scr, out2, dec, ghost >>

\* A second encode run of the same value with a serializer of the same
\* limits.
EncodeAgain ==
  /\ phase = "encoded"
  /\ \E junk \in Junk : out2' = SerializeValue(ty, src, NewSerializer(cap, scr, junk))
  /\ phase' = "again"
  /\ UNCHANGED << req, sent, ty, src, cap, scr, out, arch, dec, ghost >>

\* The positions of the Option headers of the archive.
TagPositions(log) ==
  { log[i].at : i \in { j \in 1..Len(log) : log[j].op = "res" /\ log[j].r.k = "optr" } }

\* The stored archive is damaged: an Option's tag byte is neither 0 nor 1.
CorruptTag ==
  /\ phase = "encoded"
  /\ arch # Null
  /\ \E pos \in TagPositions(out.log), tag \in BadTags :
       /\ arch' = [arch EXCEPT !.buf = Overwrite(@, pos, << tag >>)]
       /\ ghost' = [k |-> "tag", pos |-> pos, tag |-> tag]
  /\ phase' = "corrupted"
  /\ UNCHANGED << req, sent, ty, src, cap, scr, out, out2, dec >>

\* The bases an archive is moved to.
Bases == { 16, 48 }

\* The archive is read from another place: its bytes lie at base of a
\* larger memory.
Relocate ==
  /\ phase = "encoded"
  /\ arch # Null
  /\ \E base \in Bases :
       /\ arch' = [buf |-> [i \in 1..base |-> 170] \o arch.buf, root |-> arch.root + base]
       /\ ghost' = [k |-> "moved", base |-> base]
  /\ phase' = "moved"
  /\ UNCHANGED << req, sent, ty, src, cap, scr, out, out2, dec >>

\* deserialize_with on the archive's root.
Decode ==
  /\ phase \in {"encoded", "corrupted", "moved"}
  /\ arch # Null
  /\ \E ub \in {"none", "some"} : dec' = DeserializeWith(ty, arch.buf, arch.root, ub)
  /\ phase' = "decoded"
  /\ UNCHANGED << req, sent, ty, src, cap, scr, out, out2, arch, ghost >>

\* What a build makes of reaching unreachable_unchecked: a build with
\* debug assertions aborts; otherwise the call returns with the tag
\* written, or goes on to resolve a payload from the absent value's
\* storage.
UnreachableOutcomes == { "abort", "returned", "payload" }

\* Misuse: resolve_with is called with a Some resolver that serialize_with
\* returned, against a field that is (now) None.
ResolveMisused ==
  /\ phase = "encoded"
  /\ out.ok
  /\ \E i \in 1..Len(out.log), how \in UnreachableOutcomes, junk \in Junk :
       /\ out.log[i].op = "ser"
       /\ out.log[i].r.k = "optr"
       /\ out.log[i].r.some
       /\ dec' = [k |-> "resolved", how |-> how,
                  got |-> MapOptionResolveWith(TypeAt(ty, out.log[i].path), None, 0,
                            out.log[i].r,
                            ResolvedInit(SizeOf(TypeAt(ty, out.log[i].path)), junk),
                            0, out.log[i].path, << >>)]
       /\ ghost' = [k |-> "misuse", path |-> out.log[i].path]
  /\ phase' = "misused"
  /\ UNCHANGED << req, sent, ty, src, cap, scr, out, out2, arch >>

Next == Encode \/ EncodeAgain \/ CorruptTag \/ Relocate \/ Decode \/ ResolveMisused

Spec == Init /\ [][Next]_vars

\* --------------------------------------------------------------------
\* The field specification: one Date or OffsetDateTime field.  Either
\* the field of a source value is resolved and read back, or the reader
\* is handed a field that another encoder of the same format wrote
\* ("foreign"), which need not hold a date or instant this build can
\* represent.

\* Years tried: every YearStep-th of -MaxYear..MaxYear, and those at
\* most EdgeYears from 0 or from either end.
MaxYear == 5000
YearStep == 50
EdgeYears == 2

Years ==
  { y \in (-MaxYear)..MaxYear :
      \/ y % YearStep = 0
      \/ y >= -EdgeYears /\ y <= EdgeYears
      \/ y <= EdgeYears - MaxYear
      \/ y >= MaxYear - EdgeYears }

FieldDates ==
  { d \in { MkDate(y, o) : y \in Years, o \in {1, 59, 60, 365, 366} } :
      d.ordinal <= DaysInYear(d.year) }

FieldDays ==
  { MinUnixDay, MinUnixDay + 1, -1, 0, 1, 19000, MaxUnixDay - 1, MaxUnixDay }

FieldInstants ==
  { MkInstant(d, s, n) : d \in FieldDays, s \in {0, 1, 86399}, n \in {0, 1, 999999999} }

\* Day counts just outside the range of OffsetDateTime.
ForeignDays == { MinUnixDay - 2, MinUnixDay - 1, MaxUnixDay + 1, MaxUnixDay + 2 }

\* 2^64 seconds, in nanoseconds, as an i128.
TwoTo64Seconds ==
  MulSmall(MulSmall(MulSmall(Zeros(8) \o << 1 >> \o Zeros(7), 1000), 1000), 1000)

\* i128 counts no OffsetDateTime has, each with how it was made.
ForeignCounts ==
  { [value |-> UnixTimestampNanos(MkInstant(d, s, n)), made |-> "beyond"] :
      d \in ForeignDays, s \in {0, 86399}, n \in {0, 999999999} }
  \cup { [value |-> AddSmall(TwoTo64Seconds, n), made |-> "wide"] : n \in {0, 1} }
  \cup { [value |-> Zeros(15) \o << 128 >>, made |-> "min"],
         [value |-> [i \in 1..15 |-> 255] \o << 127 >>, made |-> "max"] }

InitField ==
  /\ req = Null
  /\ sent = << >>
  /\ \/ /\ phase = "new"
        /\ \/ ty = << "date" >> /\ src \in FieldDates
           \/ ty = << "dt" >> /\ src \in FieldInstants
        /\ arch = Null
        /\ ghost = NoGhost
     \/ /\ phase = "archived"
        /\ src = Null
        /\ \/ /\ ty = << "date" >>
              /\ \E y \in Years, o \in 0..OrdinalMask :
                   /\ arch = [value |-> PackDate(y, o)]
                   /\ ghost = [k |-> "foreign", year |-> y, ordinal |-> o]
           \/ /\ ty = << "dt" >>
              /\ \E c \in ForeignCounts :
                   /\ arch = [value |-> c.value]
                   /\ ghost = [k |-> "foreign", made |-> c.made]
  /\ cap = Unbounded
  /\ scr = Unbounded
  /\ out = Null
  /\ out2 = Null
  /\ dec = Null

\* DateWrapper::resolve_with: the i32 the field holds.
DateResolveWith ==
  /\ phase = "new"
  /\ ty = << "date" >>
  /\ arch' = [value |-> PackDate(src.year, src.ordinal)]
  /\ phase' = "archived"
  /\ UNCHANGED << req, sent, ty, src, cap, scr, out, out2, dec, ghost >>

\* DateWrapper::deserialize_with, with its locals year and ordinal.
DateRead ==
  /\ phase = "archived"
  /\ ty = << "date" >>
  /\ dec' = [year |-> UnpackYear(arch.value), ordinal |-> UnpackOrdinal(arch.value),
             got |-> DateDeserializeWith(arch.value)]
  /\ phase' = "decoded"
  /\ UNCHANGED << req, sent, ty, src, cap, scr, out, out2, arch, ghost >>

\* DateTimeWrapper::resolve_with: the i128 the field holds.
DateTimeResolveWith ==
  /\ phase = "new"
  /\ ty = << "dt" >>
  /\ arch' = [value |-> UnixTimestampNanos(src)]
  /\ phase' = "archived"
  /\ UNCHANGED << req, sent, ty, src, cap, scr, out, out2, dec, ghost >>

\* DateTimeWrapper::deserialize_with
DateTimeRead ==
  /\ phase = "archived"
  /\ ty = << "dt" >>
  /\ dec' = [got |-> DateTimeDeserializeWith(arch.value)]
  /\ phase' = "decoded"
  /\ UNCHANGED << req, sent, ty, src, cap, scr, out, out2, arch, ghost >>

NextField == DateResolveWith \/ DateRead \/ DateTimeResolveWith \/ DateTimeRead

FieldSpec == InitField /\ [][NextField]_vars

\* --------------------------------------------------------------------
\* The user requests (request/user.rs).  A request is built by new, changed
\* by its setters and started by start, which hands a Request (a route and
\* a query) to the client.  cache is the crate feature of that name: with
\* it the requests below GetUser hold an Option<UserId> instead of a u32,
\* and the route gets the id that cache_user yields for it (here: the
\* UserId itself).  A Query is the list of the entries pushed to it.

\* UserId::Id / UserId::Name
Id(id) == [k |-> "Id", id |-> id]
Name(name) == [k |-> "Name", name |-> name]

Digits == << "0", "1", "2", "3", "4", "5", "6", "7", "8", "9" >>

\* to_string of an unsigned integer: its decimal digits
RECURSIVE to_string(_)
to_string(n) ==
  IF n < 10 THEN << Digits[n + 1] >>
  ELSE to_string(n \div 10) \o << Digits[(n % 10) + 1] >>

QueryNew == << >>

QueryPush(query, key, value) == Append(query, << key, value >>)

\* if let Some(x) = self.field { query.push(key, x.to_string()) }
PushSome(query, key, field) ==
  IF field.k = "some" THEN QueryPush(query, key, to_string(field.v)) ELSE query

\* What start gives: it panicked, or it started request; self afterwards.
Panicked(self) == [panic |-> TRUE, self |-> self, request |-> Null]
Started(self, route, query) ==
  [panic |-> FALSE, self |-> self, request |-> [route |-> route, query |-> query]]

\* Faulty variant, for comparison: the id is read, not taken.
GetUserStartKeepsId(self) ==
  IF self.user_id.k = "none" THEN Panicked(self)
  ELSE Started(self,
               [k |-> "GetUser", user_id |-> self.user_id.v, mode |-> self.mode],
               QueryNew)

GetUserNew(user_id) ==
  [kind |-> "GetUser", fut |-> None, user_id |-> Some(user_id), mode |-> None]

\* GetUser::start: self.user_id.take().unwrap()
GetUserStart(self) ==
  IF self.user_id.k = "none" THEN Panicked(self)
  ELSE Started([self EXCEPT !.user_id = None],
               [k |-> "GetUser", user_id |-> self.user_id.v, mode |-> self.mode],
               QueryNew)

\* The user_id field a request below GetUser is built with.
UserIdField(cache, user_id) == IF cache THEN Some(user_id) ELSE user_id

\* The two cfg blocks that end start: the route is made with the u32, or
\* with what self.user_id.take().unwrap() gives.
StartWithUserId(cache, self, route, query) ==
  IF ~cache THEN Started(self, [route EXCEPT !.user_id = self.user_id], query)
  ELSE IF self.user_id.k = "none" THEN Panicked(self)
  ELSE Started([self EXCEPT !.user_id = None],
               [route EXCEPT !.user_id = self.user_id.v], query)

GetUserBeatmapsetsNew(cache, user_id) ==
  [kind |-> "GetUserBeatmapsets", fut |-> None, user_id |-> UserIdField(cache, user_id),
   map_type |-> "ranked_and_approved", limit |-> None, offset |-> None]

RankStatus == { "Graveyard", "WIP", "Pending", "Ranked", "Approved", "Qualified", "Loved" }

\* Faulty variant, for comparison: a pending map is asked for as "pending".
map_type_of_pending(self, status) ==
  [self EXCEPT !.map_type =
     CASE status \in {"Approved", "Ranked"} -> "ranked_and_approved"
       [] status = "Graveyard" -> "graveyard"
       [] status = "Pending" -> "pending"
       [] status \in {"WIP", "Qualified"} -> "unranked"
       [] status = "Loved" -> "loved"]

\* GetUserBeatmapsets::map_type
map_type(self, status) ==
  [self EXCEPT !.map_type =
     CASE status \in {"Approved", "Ranked"} -> "ranked_and_approved"
       [] status = "Graveyard" -> "graveyard"
       [] status \in {"Pending", "WIP", "Qualified"} -> "unranked"
       [] status = "Loved" -> "loved"]

loved(self) == [self EXCEPT !.map_type = "loved"]
favourite(self) == [self EXCEPT !.map_type = "favourite"]
graveyard(self) == [self EXCEPT !.map_type = "graveyard"]
ranked_and_approved(self) == [self EXCEPT !.map_type = "ranked_and_approved"]
unranked(self) == [self EXCEPT !.map_type = "unranked"]

\* limit and offset of every request that has them
limit(self, n) == [self EXCEPT !.limit = Some(n)]
offset(self, n) == [self EXCEPT !.offset = Some(n)]

GetUserBeatmapsetsStart(cache, self) ==
  StartWithUserId(cache, self,
    [k |-> "GetUserBeatmapsets", user_id |-> Null, map_type |-> self.map_type],
    PushSome(PushSome(QueryNew, "limit", self.limit), "offset", self.offset))

GetUserKudosuNew(cache, user_id) ==
  [kind |-> "GetUserKudosu", fut |-> None, user_id |-> UserIdField(cache, user_id),
   limit |-> None, offset |-> None]

GetUserKudosuStart(cache, self) ==
  StartWithUserId(cache, self, [k |-> "GetUserKudosu", user_id |-> Null],
    PushSome(PushSome(QueryNew, "limit", self.limit), "offset", self.offset))

GetUserMostPlayedNew(cache, user_id) ==
  [kind |-> "GetUserMostPlayed", fut |-> None, user_id |-> UserIdField(cache, user_id),
   limit |-> None, offset |-> None]

GetUserMostPlayedStart(cache, self) ==
  StartWithUserId(cache, self,
    [k |-> "GetUserBeatmapsets", user_id |-> Null, map_type |-> "most_played"],
    PushSome(PushSome(QueryNew, "limit", self.limit), "offset", self.offset))

GetRecentEventsNew(cache, user_id) ==
  [kind |-> "GetRecentEvents", fut |-> None, user_id |-> UserIdField(cache, user_id),
   limit |-> None, offset |-> None]

GetRecentEventsStart(cache, self) ==
  StartWithUserId(cache, self, [k |-> "GetRecentEvents", user_id |-> Null],
    PushSome(PushSome(QueryNew, "limit", self.limit), "offset", self.offset))

GetUserScoresNew(cache, user_id) ==
  [kind |-> "GetUserScores", fut |-> None, user_id |-> UserIdField(cache, user_id),
   score_type |-> "Best", limit |-> None, offset |-> None, include_fails |-> None,
   mode |-> None]

\* GetUser::mode, GetUserScores::mode
mode(self, m) == [self EXCEPT !.mode = Some(m)]

\* Faulty variant, for comparison: the score type falls back to its default.
include_fails_resets(self, b) ==
  [self EXCEPT !.include_fails = Some(b), !.score_type = "Best"]

include_fails(self, b) == [self EXCEPT !.include_fails = Some(b)]

best(self) == [self EXCEPT !.score_type = "Best"]
firsts(self) == [self EXCEPT !.score_type = "First"]
recent(self) == [self EXCEPT !.score_type = "Recent"]

\* query.push("mode", mode.to_string()): the text of a GameMode is its
\* Display, which is not part of request/user.rs; the mode stands for it.
PushMode(query, field) ==
  IF field.k = "some" THEN QueryPush(query, "mode", field.v) ELSE query

\* query.push("include_fails", (include_fails as u8).to_string())
PushBool(query, key, field) ==
  IF field.k = "some"
  THEN QueryPush(query, key, to_string(IF field.v THEN 1 ELSE 0))
  ELSE query

GetUserScoresStart(cache, self) ==
  StartWithUserId(cache, self,
    [k |-> "GetUserScores", user_id |-> Null, score_type |-> self.score_type],
    PushBool(PushMode(PushSome(PushSome(QueryNew, "limit", self.limit),
                               "offset", self.offset),
                      self.mode),
             "include_fails", self.include_fails))

\* .take(50)
TakeCount == 50

Take(s, n) == SubSeq(s, 1, IF Len(s) < n THEN Len(s) ELSE n)

\* Query::extend
QueryExtend(query, entries) == query \o entries

\* Faulty variant, for comparison: every id is sent.
GetUsersNewUncapped(user_ids) ==
  [kind |-> "GetUsers", fut |-> None,
   query |-> Some(QueryExtend(QueryNew,
               [i \in 1..Len(user_ids) |-> << "id[]", to_string(user_ids[i]) >>]))]

GetUsersNew(user_ids) ==
  [kind |-> "GetUsers", fut |-> None,
   query |-> Some(QueryExtend(QueryNew,
               [i \in 1..Len(Take(user_ids, TakeCount)) |->
                  << "id[]", to_string(Take(user_ids, TakeCount)[i]) >>]))]

\* GetUsers::start: self.query.take().unwrap()
GetUsersStart(self) ==
  IF self.query.k = "none" THEN Panicked(self)
  ELSE Started([self EXCEPT !.query = None], [k |-> "GetUsers"], self.query.v)

\* start of the request self
start(cache, self) ==
  CASE self.kind = "GetUser" -> GetUserStart(self)
    [] self.kind = "GetUserBeatmapsets" -> GetUserBeatmapsetsStart(cache, self)
    [] self.kind = "GetUserKudosu" -> GetUserKudosuStart(cache, self)
    [] self.kind = "GetUserMostPlayed" -> GetUserMostPlayedStart(cache, self)
    [] self.kind = "GetRecentEvents" -> GetRecentEventsStart(cache, self)
    [] self.kind = "GetUserScores" -> GetUserScoresStart(cache, self)
    [] self.kind = "GetUsers" -> GetUsersStart(self)

\* The request specification: a request is built, at most MaxCalls
\* setters are called on it, and start is called on it up to MaxStarts
\* times.  ghost keeps what new was given and the setters called.
MaxCalls == 3
MaxStarts == 2
\* The longest list of ids given to GetUsers::new.
MaxIds == 52

UserIds == { Id(2), Name("freddie benson") }
U32s == { 2 }
Counts == { 5 }
GameModes == { "TKO", "CTB" }

IdLists ==
  { [i \in 1..n |-> f[1] + f[2] * i] :
      n \in { 0, 1, 2, TakeCount - 1, TakeCount, TakeCount + 1, MaxIds },
      f \in { << 0, 0 >>, << 0, 1 >>, << 1000, -1 >>, << 7, 997 >>, << 2147480000, 1 >> } }

WithUserId == { "GetUserBeatmapsets", "GetUserKudosu", "GetUserMostPlayed",
                "GetRecentEvents", "GetUserScores" }

New(kind, cache, user_id) ==
  CASE kind = "GetUserBeatmapsets" -> GetUserBeatmapsetsNew(cache, user_id)
    [] kind = "GetUserKudosu" -> GetUserKudosuNew(cache, user_id)
    [] kind = "GetUserMostPlayed" -> GetUserMostPlayedNew(cache, user_id)
    [] kind = "GetRecentEvents" -> GetRecentEventsNew(cache, user_id)
    [] kind = "GetUserScores" -> GetUserScoresNew(cache, user_id)

Built(cache, given, r) ==
  /\ req = r
  /\ ghost = [k |-> "calls", cache |-> cache, given |-> given, calls |-> << >>,
              starts |-> 0]

InitRequest ==
  /\ phase = "built"
  /\ sent = << >>
  /\ ty = << >>
  /\ src = Null
  /\ cap = Unbounded
  /\ scr = Unbounded
  /\ out = Null
  /\ out2 = Null
  /\ arch = Null
  /\ dec = Null
  /\ \E cache \in BOOLEAN :
       \/ \E id \in UserIds : Built(cache, id, GetUserNew(id))
       \/ \E kind \in WithUserId, id \in (IF cache THEN UserIds ELSE U32s) :
            Built(cache, id, New(kind, cache, id))
       \/ \E ids \in IdLists : Built(cache, ids, GetUsersNew(ids))

\* A setter is called on the request.
Call(kinds, next, call) ==
  /\ phase = "built"
  /\ req.kind \in kinds
  /\ Len(ghost.calls) < MaxCalls
  /\ req' = next
  /\ ghost' = [ghost EXCEPT !.calls = Append(@, call)]
  /\ UNCHANGED << phase, sent, ty, src, cap, scr, out, out2, arch, dec >>

Limit == \E n \in Counts : Call(WithUserId, limit(req, n), [op |-> "limit", arg |-> n])
Offset == \E n \in Counts : Call(WithUserId, offset(req, n), [op |-> "offset", arg |-> n])
Mode ==
  \E m \in GameModes :
    Call({"GetUser", "GetUserScores"}, mode(req, m), [op |-> "mode", arg |-> m])
IncludeFails ==
  \E b \in BOOLEAN :
    Call({"GetUserScores"}, include_fails(req, b), [op |-> "include_fails", arg |-> b])
MapType ==
  \E status \in RankStatus :
    Call({"GetUserBeatmapsets"}, map_type(req, status), [op |-> "map_type", arg |-> status])
Loved == Call({"GetUserBeatmapsets"}, loved(req), [op |-> "loved"])
Favourite == Call({"GetUserBeatmapsets"}, favourite(req), [op |-> "favourite"])
Graveyard == Call({"GetUserBeatmapsets"}, graveyard(req), [op |-> "graveyard"])
RankedAndApproved ==
  Call({"GetUserBeatmapsets"}, ranked_and_approved(req), [op |-> "ranked_and_approved"])
Unranked == Call({"GetUserBeatmapsets"}, unranked(req), [op |-> "unranked"])
Best == Call({"GetUserScores"}, best(req), [op |-> "best"])
Firsts == Call({"GetUserScores"}, firsts(req), [op |-> "firsts"])
Recent == Call({"GetUserScores"}, recent(req), [op |-> "recent"])

\* start is called on the request.
Start ==
  /\ phase \in {"built", "started"}
  /\ ghost.starts < MaxStarts
  /\ req' = start(ghost.cache, req).self
  /\ sent' = IF start(ghost.cache, req).panic THEN sent
             ELSE Append(sent, start(ghost.cache, req).request)
  /\ phase' = IF start(ghost.cache, req).panic THEN "panicked" ELSE "started"
  /\ ghost' = [ghost EXCEPT !.starts = @ + 1]
  /\ UNCHANGED << ty, src, cap, scr, out, out2, arch, dec >>

NextRequest ==
  \/ Limit \/ Offset \/ Mode \/ IncludeFails
  \/ MapType \/ Loved \/ Favourite \/ Graveyard \/ RankedAndApproved \/ Unranked
  \/ Best \/ Firsts \/ Recent
  \/ Start

RequestSpec == InitRequest /\ [][NextRequest]_vars

\* --------------------------------------------------------------------
\* Properties

\* The paths of the source values under (and including) value.
RECURSIVE PathsOf(_, _)
PathsOf(T, value) ==
  { << >> } \cup
  CASE T[1] = "vec" ->
         UNION { { << i >> \o q : q \in PathsOf(Tail2(T), value.e[i]) } :
                 i \in 1..Len(value.e) }
    [] T[1] = "opt" /\ value.k = "some" ->
         { << 1 >> \o q : q \in PathsOf(Tail2(T), value.v) }
    [] OTHER -> { }

RECURSIVE ValueAt(_, _)
ValueAt(value, p) ==
  IF p = << >> THEN value
  ELSE ValueAt(IF value.k = "vec" THEN value.e[p[1]] ELSE value.v, Tail2(p))

IsAncestor(p, q) == Len(p) < Len(q) /\ SubSeq(q, 1, Len(p)) = p

\* The indices of the log's events of one kind about the value at p.
EventsOf(log, op, p) == { i \in 1..Len(log) : log[i].op = op /\ log[i].path = p }

Decoded == phase = "decoded" /\ ghost = NoGhost

C2_SequenceOrder ==
  (Decoded /\ ty[1] = "vec") =>
    /\ dec.res = "ok"
    /\ Len(dec.v.e) = Len(src.e)
    /\ \A i \in 1..Len(src.e) :
         \A j \in EventsOf(out.log, "res", << i >>) :
           ResOk(dec.v.e[i]) = DeserializeWith(Tail2(ty), arch.buf, out.log[j].at, "none")
    /\ \A i \in 1..Len(src.e) : EventsOf(out.log, "res", << i >>) # { }

C2_Witness ==
  /\ Decoded
  /\ ty = << "vec", "un" >>
  /\ Len(src.e) = 3
  /\ Cardinality({ src.e[i] : i \in 1..3 }) = 3
  /\ dec.v.e = src.e

\* C3 (as claimed): decoding an Option whose tag byte is neither 0 nor 1
\* gives the decode error InvalidTag.
C3_InvalidTag ==
  (phase = "decoded" /\ ghost.k = "tag" /\ ty[1] = "opt" /\ ghost.pos = arch.root) =>
    dec = ResErr("InvalidTag")

\* C4 (as claimed): reading a Date field whose ordinal bits are 0, above
\* 366 or above the number of days of its year gives a decode error, not
\* a panic.
C4_DateRejected ==
  (phase = "decoded" /\ ty = << "date" >> /\ ghost.k = "foreign"
     /\ (ghost.ordinal = 0 \/ ghost.ordinal > DaysInYear(ghost.year))) =>
    dec.got.res = "err"

\* C5: the date packing is lossless.  For a year of -MaxYear..MaxYear
\* and an ordinal of 1..366 packed as (year << 9) | ordinal into an i32,
\* the reader's ordinal (packed & 0x1FF) and year (packed >> 9) are the
\* ones that were packed.
C5_PackLossless ==
  (phase = "decoded" /\ ty = << "date" >>) =>
    LET y == IF ghost.k = "foreign" THEN ghost.year ELSE src.year
        o == IF ghost.k = "foreign" THEN ghost.ordinal ELSE src.ordinal
    IN  (o >= 1 /\ o <= 366) => dec.year = y /\ dec.ordinal = o

C5_Witness ==
  /\ phase = "decoded"
  /\ ty = << "date" >>
  /\ ghost.k = "foreign"
  /\ ghost.year = -MaxYear
  /\ ghost.ordinal = 366
  /\ dec.year = -MaxYear
  /\ dec.ordinal = 366

\* C6 (as claimed): reading an instant field whose count is outside the
\* range of OffsetDateTime gives the decode error OutOfRange, and a count
\* at either end of the range reads back as the same instant.
C6_InstantRange ==
  (phase = "decoded" /\ ty = << "dt" >>) =>
    IF ghost.k = "foreign"
    THEN dec.got = ResErr("OutOfRange")
    ELSE dec.got = ResOk(src)

\* The relative offset stored in the header at pos: a Vec's at its start,
\* an out-of-line string's 4 bytes in.
StoredOffset(buf, T, pos) ==
  FromLe32(Slice(buf, IF T[1] = "vec" THEN pos ELSE pos + 4, 4))

\* C7: children are serialized before the parent's header is resolved.
\* In every encode run, when resolve_with is called for a value, the
\* serialize_with of every value under it has returned, and so has its
\* own, with the resolver it is called with.  In the finished archive the
\* offset stored in a Vec's header is the position of its first element's
\* header (resolved earlier) minus the header's own position, and the
\* offset stored in an out-of-line string's header leads from the header
\* back to the text.
C7_ChildrenFirst ==
  (phase # "new") =>
    \A i \in 1..Len(out.log) :
      out.log[i].op = "res" =>
        LET ev == out.log[i]
            T  == TypeAt(ty, ev.path)
            v  == ValueAt(src, ev.path)
        IN  /\ \A q \in PathsOf(ty, src) :
                 (q = ev.path \/ IsAncestor(ev.path, q)) =>
                   \E j \in EventsOf(out.log, "ser", q) : j < i
            /\ \E j \in EventsOf(out.log, "ser", ev.path) : out.log[j].r = ev.r
            /\ (out.ok /\ T[1] = "vec" /\ Len(v.e) > 0) =>
                 \E j \in EventsOf(out.log, "res", ev.path \o << 1 >>) :
                   /\ j < i
                   /\ StoredOffset(out.buf, T, ev.at) = out.log[j].at - ev.at
            /\ (out.ok /\ T[1] \in {"cc", "un"} /\ Len(v.s) > InlineCapacity) =>
                 /\ StoredOffset(out.buf, T, ev.at) < 0
                 /\ Slice(out.buf, ev.at + StoredOffset(out.buf, T, ev.at), Len(v.s)) = v.s

C7_Witness ==
  /\ phase = "encoded"
  /\ out.ok
  /\ ty = << "vec", "vec", "un" >>
  /\ Len(src.e) = 2
  /\ Len(src.e[1].e) = 2
  /\ Len(src.e[2].e) = 2
  /\ \E i \in EventsOf(out.log, "res", << >>), j \in EventsOf(out.log, "ser", << 2, 2 >>) :
       j < i

\* Each serialize_with that returned Ok for a value is followed by exactly
\* one resolve_with for that value, called with the resolver it returned,
\* and nothing is resolved that was not serialized.
ResolversConsumed(log) ==
  /\ \A i \in 1..Len(log) :
       log[i].op = "ser" =>
         /\ EventsOf(log, "ser", log[i].path) = { i }
         /\ Cardinality(EventsOf(log, "res", log[i].path)) = 1
         /\ \A j \in EventsOf(log, "res", log[i].path) : j > i /\ log[j].r = log[i].r
  /\ \A j \in 1..Len(log) :
       log[j].op = "res" => EventsOf(log, "ser", log[j].path) # { }

C9_ErrorsPropagate ==
  (phase # "new") =>
    \A i \in 1..Len(out.log) :
      out.log[i].op = "fail" =>
        LET ev == out.log[i]
        IN  /\ \A q \in PathsOf(ty, src) :
                 IsAncestor(q, ev.path) =>
                   \E j \in EventsOf(out.log, "fail", q) :
                     j > i /\ out.log[j].err = ev.err
            /\ \A q \in PathsOf(ty, src) :
                 (q = ev.path \/ IsAncestor(q, ev.path)) =>
                   /\ EventsOf(out.log, "ser", q) = { }
                   /\ EventsOf(out.log, "res", q) = { }
            /\ ~out.ok
            /\ out.err = ev.err
            /\ out.root = NoRoot
            /\ arch = Null

C9_Witness ==
  /\ phase = "encoded"
  /\ ty = << "opt", "vec", "un" >>
  /\ \E i \in EventsOf(out.log, "fail", << 1, 2 >>) :
       /\ out.log[i].err.k = "Overflow"
       /\ EventsOf(out.log, "ser", << 1, 1 >>) # { }
       /\ \E j \in EventsOf(out.log, "fail", << >>) : j > i
  /\ out.buf # << >>
  /\ out.root = NoRoot

Dirty(size) == [i \in 1..size |-> 170]

\* C11: the Optional encode contract.  A resolver returned by the Option
\* adapter's serialize_with is None exactly when the source value is
\* absent, and otherwise Some of the resolver the element adapter's
\* serialize_with returned.  resolve_with given None writes the tag 0 and
\* no other byte, and does not call the element adapter; given Some it
\* writes the tag 1 and calls the element adapter's resolve_with exactly
\* once, with the carried resolver, at pos + the payload's offset in the
\* variant, into the memory at that offset.
C11_OptionContract ==
  (phase # "new") =>
    \A i \in 1..Len(out.log) :
      LET ev    == out.log[i]
          T     == TypeAt(ty, ev.path)
          v     == ValueAt(src, ev.path)
          child == ev.path \o << 1 >>
      IN  T[1] = "opt" =>
            /\ (ev.op = "ser") =>
                 /\ ev.r.some = (v.k = "some")
                 /\ (v.k = "some") =>
                      \E j \in EventsOf(out.log, "ser", child) :
                        j < i /\ out.log[j].r = ev.r.r
            /\ (ev.op = "res" /\ ~ev.r.some) =>
                 /\ EventsOf(out.log, "res", child) = { }
                 /\ MapOptionResolveWith(T, v, ev.pos, ev.r, Dirty(SizeOf(T)), 0,
                                         ev.path, << >>).m
                      = Overwrite(Dirty(SizeOf(T)), 0, << 0 >>)
                 /\ out.ok => out.buf[ev.at + 1] = 0
            /\ (ev.op = "res" /\ ev.r.some) =>
                 /\ Cardinality(EventsOf(out.log, "res", child)) = 1
                 /\ \A j \in EventsOf(out.log, "res", child) :
                      /\ j > i
                      /\ out.log[j].r = ev.r.r
                      /\ out.log[j].pos = ev.pos + PayloadOffset(T)
                      /\ out.log[j].at = ev.at + PayloadOffset(T)
                 /\ out.ok => out.buf[ev.at + 1] = 1

C11_Witness ==
  /\ phase = "encoded"
  /\ out.ok
  /\ ty = << "vec", "opt", "dt" >>
  /\ Len(src.e) = 2
  /\ src.e[1].k = "some"
  /\ src.e[2].k = "none"
  /\ EventsOf(out.log, "res", << 1, 1 >>) # { }
  /\ EventsOf(out.log, "res", << 2 >>) # { }
  /\ EventsOf(out.log, "res", << 2, 1 >>) = { }

\* C12: the absent-value arm under a Some resolver is never reached.  In
\* every encode run, which pairs each resolve_with with the serialize_with
\* of the same unmodified value, every Option resolved with a Some
\* resolver is present, at every depth, and the run never reaches
\* unreachable_unchecked.
C12_ArmUnreached ==
  (phase # "new") =>
    /\ ~out.ub
    /\ (phase = "again") => ~out2.ub
    /\ \A i \in 1..Len(out.log) :
         (out.log[i].op = "res" /\ out.log[i].r.k = "optr" /\ out.log[i].r.some) =>
           ValueAt(src, out.log[i].path).k = "some"

C12_Witness ==
  /\ phase = "encoded"
  /\ out.ok
  /\ ty = << "opt", "opt", "un" >>
  /\ src.k = "some"
  /\ src.v.k = "some"
  /\ EventsOf(out.log, "res", << 1, 1 >>) # { }
  /\ ~out.ub

\* C13 (as claimed): misuse of the Option adapter is a checked failure.
\* When resolve_with is called with a Some resolver against an absent
\* value, the call ends in an abort: it does not return and does not go
\* on to a payload.
C13_CheckedFailure ==
  (phase = "misused" /\ dec.got.ub) => dec.how = "abort"

IsText(T) == T[1] \in {"cc", "un"}

\* The archive of the same text as the other kind of identifier.
AsOtherKind ==
  SerializeValue(<< IF ty[1] = "cc" THEN "un" ELSE "cc" >>,
                 MkText(IF ty[1] = "cc" THEN "un" ELSE "cc", src.s),
                 NewSerializer(cap, scr, 0))

C15_RelativeOffsets ==
  /\ (phase # "new" /\ out.ok) =>
       \A i \in 1..Len(out.log) :
         out.log[i].op = "res" =>
           LET ev == out.log[i]
               T  == TypeAt(ty, ev.path)
               v  == ValueAt(src, ev.path)
               to == ev.at + StoredOffset(out.buf, T, ev.at)
           IN  /\ ev.pos = ev.at
               /\ (T[1] = "vec") =>
                    /\ to = ev.r.pos
                    /\ (Len(v.e) > 0) =>
                         /\ StoredOffset(out.buf, T, ev.at) # ev.r.pos
                         /\ \A j \in EventsOf(out.log, "res", ev.path \o << 1 >>) :
                              out.log[j].at = to
               /\ (IsText(T) /\ Len(v.s) > InlineCapacity) =>
                    /\ to = ev.r.pos
                    /\ StoredOffset(out.buf, T, ev.at) # ev.r.pos
                    /\ Slice(out.buf, to, Len(v.s)) = v.s
               /\ (ev.path # << >> /\ TypeAt(ty, SubSeq(ev.path, 1, Len(ev.path) - 1))[1] = "opt") =>
                    \A j \in EventsOf(out.log, "res", SubSeq(ev.path, 1, Len(ev.path) - 1)) :
                      ev.at = out.log[j].at
                                + PayloadOffset(TypeAt(ty, SubSeq(ev.path, 1, Len(ev.path) - 1)))
  /\ (phase = "decoded" /\ ghost.k = "moved") => dec = ResOk(src)

C15_Witness ==
  /\ phase = "decoded"
  /\ ghost.k = "moved"
  /\ ghost.base = 48
  /\ ty = << "opt", "vec", "un" >>
  /\ src.k = "some"
  /\ Len(src.v.e) = 2
  /\ src.v.e[2].s = Text9
  /\ dec = ResOk(src)

\* The last of the calls made whose setter is one of ops; 0 if there is none.
LastOf(calls, ops) ==
  IF \E i \in 1..Len(calls) : calls[i].op \in ops
  THEN CHOOSE i \in 1..Len(calls) :
         /\ calls[i].op \in ops
         /\ \A j \in (i + 1)..Len(calls) : calls[j].op \notin ops
  ELSE 0

MapTypeSetters ==
  { "map_type", "loved", "favourite", "graveyard", "ranked_and_approved", "unranked" }

\* The map type a call of a map type setter asks for.
MapTypeAsked(call) ==
  IF call.op # "map_type" THEN call.op
  ELSE CASE call.arg \in {"Ranked", "Approved"} -> "ranked_and_approved"
         [] call.arg = "Graveyard" -> "graveyard"
         [] call.arg \in {"Pending", "WIP", "Qualified"} -> "unranked"
         [] call.arg = "Loved" -> "loved"

\* C16: the map type of GetUserBeatmapsets.  A request on which no map
\* type setter was called holds, and is started with, the map type
\* "ranked_and_approved"; otherwise it holds and is started with the map
\* type of the last map type setter called, whatever limit and offset
\* calls were made before, between or after.
C16_MapType ==
  (ghost.k = "calls" /\ req.kind = "GetUserBeatmapsets") =>
    LET last == LastOf(ghost.calls, MapTypeSetters)
        want == IF last = 0 THEN "ranked_and_approved" ELSE MapTypeAsked(ghost.calls[last])
    IN  /\ req.map_type = want
        /\ \A j \in 1..Len(sent) :
             /\ sent[j].route.k = "GetUserBeatmapsets"
             /\ sent[j].route.map_type = want

C16_Witness ==
  /\ phase = "started"
  /\ req.kind = "GetUserBeatmapsets"
  /\ Len(ghost.calls) = 3
  /\ ghost.calls[1].op = "favourite"
  /\ ghost.calls[2] = [op |-> "map_type", arg |-> "Qualified"]
  /\ ghost.calls[3].op = "offset"
  /\ sent[1].route.map_type = "unranked"

\* The score type a call of a score type setter asks for.
ScoreTypeAsked(call) ==
  CASE call.op = "best" -> "Best"
    [] call.op = "firsts" -> "First"
    [] call.op = "recent" -> "Recent"

\* C17: the score type of GetUserScores.  A request on which none of
\* best, firsts and recent was called holds the score type Best, and the
\* route it is started with carries it; otherwise they are the score type
\* of the last of these called, whatever limit, offset, mode and
\* include_fails calls were made before, between or after.
C17_ScoreType ==
  (ghost.k = "calls" /\ req.kind = "GetUserScores") =>
    LET last == LastOf(ghost.calls, {"best", "firsts", "recent"})
        want == IF last = 0 THEN "Best" ELSE ScoreTypeAsked(ghost.calls[last])
    IN  /\ req.score_type = want
        /\ \A j \in 1..Len(sent) :
             /\ sent[j].route.k = "GetUserScores"
             /\ sent[j].route.score_type = want

C17_Witness ==
  /\ phase = "started"
  /\ req.kind = "GetUserScores"
  /\ Len(ghost.calls) = 3
  /\ ghost.calls[1].op = "recent"
  /\ ghost.calls[2].op = "firsts"
  /\ ghost.calls[3].op = "include_fails"
  /\ sent[1].route.score_type = "First"

\* C18: the layout of a Vec.  serialize_with serializes every element, in
\* source order, before it resolves any element header; it then writes
\* the element headers in source order one right after the other, each
\* of the element type's size.  resolve_with writes a header whose length
\* is the length of the source Vec and whose offset leads to the first
\* element header (for an empty Vec, to where it would lie).
C18_SequenceLayout ==
  (phase # "new") =>
    \A p \in PathsOf(ty, src) :
      (TypeAt(ty, p)[1] = "vec") =>
        LET E   == Tail2(TypeAt(ty, p))
            n   == Len(ValueAt(src, p).e)
            S(i) == EventsOf(out.log, "ser", p \o << i >>)
            R(i) == EventsOf(out.log, "res", p \o << i >>)
        IN  /\ \A i \in 1..n, k \in 1..n : \A a \in S(i), b \in R(k) : a < b
            /\ \A i \in 1..n, k \in 1..n :
                 i < k => /\ \A a \in S(i), b \in S(k) : a < b
                          /\ \A a \in R(i), b \in R(k) : a < b
            /\ \A i \in 1..n : R(i) # { } => S(n) # { }
            /\ out.ok =>
                 /\ \A i \in 1..n : Cardinality(R(i)) = 1
                 /\ \A i \in 2..n : \A a \in R(i - 1), b \in R(i) :
                      out.log[b].at = out.log[a].at + SizeOf(E)
                 /\ \A h \in EventsOf(out.log, "res", p) :
                      /\ FromLe32(Slice(out.buf, out.log[h].at + 4, 4)) = n
                      /\ out.log[h].at + StoredOffset(out.buf, TypeAt(ty, p), out.log[h].at)
                           = out.log[h].r.pos
                      /\ out.log[h].r.pos % AlignOf(E) = 0
                      /\ \A a \in R(1) :
                           out.log[a].at = out.log[h].r.pos
                      /\ \A a \in R(n) :
                           out.log[a].at + SizeOf(E) <= out.log[h].at

C18_Witness ==
  /\ phase = "encoded"
  /\ out.ok
  /\ ty = << "vec", "un" >>
  /\ Len(src.e) = 3
  /\ src.e[1].s = Text9
  /\ src.e[2].s = TextJP
  /\ src.e[3].s = Text8
  /\ \E a \in EventsOf(out.log, "res", << 1 >>), b \in EventsOf(out.log, "res", << 3 >>) :
       out.log[b].at = out.log[a].at + 16

\* The field start takes: the query of GetUsers, the user_id of the others.
Identifier(r) == IF r.kind = "GetUsers" THEN r.query ELSE r.user_id

\* The identifier of the request started.
IdentifierSent(request) ==
  IF request.route.k = "GetUsers" THEN request.query ELSE request.route.user_id

\* C19: setters never consume a request's identifier, and start consumes
\* it once.  For GetUser, for GetUsers' query and, with the cache feature,
\* for the other requests: after new and any setter calls the identifier
\* is present and is the one new made, so the first start does not panic
\* and starts a request with it; after that start it is absent, and a
\* second start panics and starts nothing.
C19_IdentifierTaken ==
  (ghost.k = "calls" /\ (req.kind \in {"GetUser", "GetUsers"} \/ ghost.cache)) =>
    /\ (ghost.starts = 0) =>
         /\ phase = "built"
         /\ Identifier(req).k = "some"
         /\ (req.kind # "GetUsers") => Identifier(req).v = ghost.given
    /\ (ghost.starts >= 1) =>
         /\ Identifier(req) = None
         /\ Len(sent) = 1
         /\ (req.kind # "GetUsers") => IdentifierSent(sent[1]) = ghost.given
         /\ (req.kind = "GetUsers") => Len(IdentifierSent(sent[1])) <= Len(ghost.given)
    /\ (ghost.starts = 1) => phase = "started"
    /\ (ghost.starts = 2) => phase = "panicked"

C19_Witness ==
  /\ phase = "panicked"
  /\ req.kind = "GetUserScores"
  /\ ghost.cache
  /\ Len(ghost.calls) = 3
  /\ ghost.starts = 2
  /\ Len(sent) = 1
  /\ sent[1].route.user_id = ghost.given

IsDecimal(text) ==
  /\ Len(text) >= 1
  /\ \A i \in 1..Len(text) : \E d \in 1..10 : Digits[d] = text[i]
  /\ Len(text) > 1 => text[1] # "0"

\* The number a decimal text stands for.
RECURSIVE ParseDecimal(_)
ParseDecimal(text) ==
  IF Len(text) = 0 THEN 0
  ELSE ParseDecimal(SubSeq(text, 1, Len(text) - 1)) * 10
         + ((CHOOSE d \in 1..10 : Digits[d] = text[Len(text)]) - 1)

\* C20: GetUsers::new builds the query from the first 50 ids.  For k ids
\* given, the query has min(k, 50) entries; the i-th has the key "id[]"
\* and, as value, the decimal text of the i-th id; the 51st id and those
\* after it are left out, and the request is built all the same.
C20_FirstFifty ==
  (ghost.k = "calls" /\ req.kind = "GetUsers") =>
    \A query \in (IF phase = "built" THEN { req.query.v } ELSE { sent[1].query }) :
      /\ (phase = "built") => req.query.k = "some"
      /\ Len(query) = (IF Len(ghost.given) < 50 THEN Len(ghost.given) ELSE 50)
      /\ \A i \in 1..Len(query) :
           /\ query[i][1] = "id[]"
           /\ IsDecimal(query[i][2])
           /\ ParseDecimal(query[i][2]) = ghost.given[i]

C20_Witness ==
  /\ phase = "started"
  /\ req.kind = "GetUsers"
  /\ Len(ghost.given) = 51
  /\ ghost.given[50] = 2147480050
  /\ Len(sent[1].query) = 50
  /\ sent[1].query[50] = << "id[]", << "2", "1", "4", "7", "4", "8", "0", "0", "5", "0" >> >>

====
